---- MODULE Spec2Model ----
(***************************************************************************)
(* Model of libdeda/pattern_handler.py: the tracking-dot patterns, their   *)
(* alignment search, validation, field access and anonymisation masks.     *)
(*                                                                         *)
(* A matrix is modelled by the set of its cells <<x, y>> that hold a dot   *)
(* (value 1); x is the first numpy index, y the second.  A matrix that is  *)
(* passed around with its shape is a record [shape, dots].                 *)
(* A Python str is a sequence of one-character strings.                    *)
(***************************************************************************)
EXTENDS Integers, Sequences, FiniteSets, TLC

VARIABLES
    pattern,    \* pid of the pattern class of the instance at hand
    aligned,    \* self.aligned of the instance at hand
    op,         \* the call made last
    ret,        \* what a get or a check returned
    err,        \* the exception the last call raised, "" when none
    before,     \* self.aligned before the last assignment
    last,       \* name, value and outcome of the last assignment
    written,    \* lines written by the successful assignments so far
    nsets,      \* assignments made so far
    mask,       \* the anonymisation mask generated last
    unaligned,  \* the matrix handed to the search
    found,      \* the transformations the search returned
    tdms,       \* the aligned instances built from them
    origin,     \* the instance unaligned was rebuilt from, if any
    nundo       \* rebuilds made so far

setvars == <<before, last, written, nsets>>
searchvars == <<unaligned, found, tdms, origin, nundo>>
vars == <<pattern, aligned, op, ret, err, setvars, mask, searchvars>>

\* Longest run of set operations explored on one Pattern4 instance.
MaxSets == 2

-----------------------------------------------------------------------------
(* Python str helpers *)

DigitChars == <<"0", "1", "2", "3", "4", "5", "6", "7", "8", "9">>

Digits == {DigitChars[i] : i \in 1..10}

DigitVal(c) == (CHOOSE i \in 1..10 : DigitChars[i] = c) - 1

\* str.isdigit(): non-empty and every character a digit
isdigit(s) == Len(s) > 0 /\ \A i \in 1..Len(s) : s[i] \in Digits

\* int(s) for a string of decimal digits
RECURSIVE pyint(_)
pyint(s) ==
    IF Len(s) = 0 THEN 0
    ELSE 10 * pyint(SubSeq(s, 1, Len(s) - 1)) + DigitVal(s[Len(s)])

\* int(s, 2) for a string of "0"/"1"
RECURSIVE pyint2(_)
pyint2(s) ==
    IF Len(s) = 0 THEN 0
    ELSE 2 * pyint2(SubSeq(s, 1, Len(s) - 1)) + DigitVal(s[Len(s)])

\* str(n) for n >= 0
RECURSIVE pystr(_)
pystr(n) ==
    IF n < 10 THEN <<DigitChars[n + 1]>>
    ELSE pystr(n \div 10) \o <<DigitChars[(n % 10) + 1]>>

\* "%02d" % n for n >= 0
fmt02d(n) == IF n < 10 THEN <<"0">> \o pystr(n) ELSE pystr(n)

\* s[a:b] with 0 <= a <= b
pyslice(s, a, b) ==
    IF a >= Len(s) THEN <<>>
    ELSE SubSeq(s, a + 1, IF b < Len(s) THEN b ELSE Len(s))

\* s.replace("-", "")
replaceDash(s) == SelectSeq(s, LAMBDA c : c # "-")

\* bin(n)[2:] as a list of ints
RECURSIVE binDigits(_)
binDigits(n) ==
    IF n < 2 THEN <<n>> ELSE binDigits(n \div 2) \o <<n % 2>>

\* while len(valbin) < 8: valbin = [0]+valbin
RECURSIVE fill8(_)
fill8(valbin) == IF Len(valbin) < 8 THEN fill8(<<0>> \o valbin) ELSE valbin

RECURSIVE SeqSum(_)
SeqSum(s) == IF Len(s) = 0 THEN 0 ELSE s[1] + SeqSum(Tail(s))

\* array2str of extract_yd: the cells rendered as "0"/"1" and joined
array2str(a) == [i \in 1..Len(a) |-> DigitChars[a[i] + 1]]

-----------------------------------------------------------------------------
(* Pattern4 *)

Pattern4_n_i_prototype == 8
Pattern4_n_j_prototype == 16

Pattern4_codebits == {<<x, y>> : x \in 0..7, y \in 1..15}

Pattern4_manufacturers ==
    (0 :> <<"X","e","r","o","x">>) @@ (3 :> <<"E","p","s","o","n">>)
    @@ (20 :> <<"D","e","l","l">>) @@ (4 :> <<"X","e","r","o","x">>)

Pattern4_names ==
    {"minutes", "hour", "day", "month", "year", "serial", "unknown1",
     "manufacturer", "unknown3", "unknown4", "unknown5", "printer", "raw"}

\* format[name], with the single row of a one-row field as a 1-tuple
Pattern4_format(name) ==
    CASE name = "minutes"      -> <<14>>
      [] name = "hour"         -> <<11>>
      [] name = "day"          -> <<10>>
      [] name = "month"        -> <<9>>
      [] name = "year"         -> <<8>>
      [] name = "serial"       -> <<3, 4, 5>>
      [] name = "unknown1"     -> <<13>>
      [] name = "manufacturer" -> <<12>>
      [] name = "unknown3"     -> <<7>>
      [] name = "unknown4"     -> <<2>>
      [] name = "unknown5"     -> <<1>>
      [] name = "printer"      -> <<2, 3, 4, 5>>
      [] name = "raw"          -> <<1, 2, 3, 4, 5, 6, 7, 8, 9, 10, 11, 12, 13, 14>>

Cell(a, x, y) == IF <<x, y>> \in a THEN 1 ELSE 0

\* np.sum(a[xs, y])
ColSum(a, xs, y) == Cardinality({x \in xs : <<x, y>> \in a})

\* np.sum(a[x, ys])
RowSum(a, x, ys) == Cardinality({y \in ys : <<x, y>> \in a})

\* Mutant of Pattern4_check: the reserved cells are not looked at
Pattern4_check_noReserved(a) ==
    /\ \A y \in 1..14 : ColSum(a, 0..7, y) % 2 = 1
    /\ \A x \in 1..7 : RowSum(a, x, 1..15) % 2 = 1

Pattern4_check(a) ==
    /\ \A y \in 1..14 : ColSum(a, 0..7, y) % 2 = 1
    /\ \A x \in 1..7 : RowSum(a, x, 1..15) % 2 = 1
    /\ \A x \in 1..3 : <<x, 9>> \notin a
    /\ \A x \in 1..2 : \A y \in 10..11 : <<x, y>> \notin a

NoneValue == <<"None">>

Pattern4_decoded(a, name) ==
    LET rows == Pattern4_format(name)
        piece(k) == fmt02d(pyint2(array2str([x \in 1..7 |-> Cell(a, x, rows[k])])))
        RECURSIVE join(_)
        join(k) == IF k > Len(rows) THEN <<>> ELSE piece(k) \o join(k + 1)
    IN join(1)

Pattern4_getManufacturer(a) ==
    LET decoded == Pattern4_decoded(a, "manufacturer")
    IN IF isdigit(decoded) /\ pyint(decoded) \in DOMAIN Pattern4_manufacturers
       THEN Pattern4_manufacturers[pyint(decoded)]
       ELSE <<"X","e","r","o","x","/","D","e","l","l","/","E","p","s","o","n">>

Pattern4_getitem(a, name) ==
    IF name = "manufacturer" THEN Pattern4_getManufacturer(a)
    ELSE IF name = "serial"
         THEN IF Pattern4_getManufacturer(a) = <<"D","e","l","l">>
              THEN NoneValue
              ELSE <<"-">> \o Pattern4_decoded(a, name) \o <<"-">>
         ELSE Pattern4_decoded(a, name)

\* Mutant of ParityBit: the parity bit makes the column even
ParityBit_even(valbin) == SeqSum(valbin) % 2

\* valbin[0] = 1-np.sum(valbin)%2
ParityBit(valbin) == 1 - (SeqSum(valbin) % 2)

\* the column written for the two characters v
Valbin(v) ==
    LET filled == fill8(binDigits(pyint(v)))
    IN [filled EXCEPT ![1] = ParityBit(filled)]

\* Mutant of SetColumn: the column is written one line further
SetColumn_nextLine(a, row, valbin) ==
    {c \in a : c[2] # row + 1}
    \cup {<<x, row + 1>> : x \in {x \in 0..7 : valbin[x + 1] = 1}}

\* self.aligned[:,row] = valbin
SetColumn(a, row, valbin) ==
    {c \in a : c[2] # row} \cup {<<x, row>> : x \in {x \in 0..7 : valbin[x + 1] = 1}}

\* v = value[i:i+2]
ValueGroup(value, i) == pyslice(value, i, i + 2)

\* for i in range(len(rows)): ...
RECURSIVE WriteRows(_, _, _, _)
WriteRows(a, rows, value, i) ==
    IF i >= Len(rows) THEN a
    ELSE WriteRows(SetColumn(a, rows[i + 1], Valbin(ValueGroup(value, i))),
                   rows, value, i + 1)

\* Mutant of RowParity: the parity line is left as it was
RowParity_stale(a) == a

\* self.aligned[:,15] = 1-np.sum(self.aligned[:,1:15],axis=1)%2
RowParity(a) ==
    {c \in a : c[2] # 15}
    \cup {<<x, 15>> : x \in {x \in 0..7 : 1 - (RowSum(a, x, 1..14) % 2) = 1}}

\* self.aligned[0,15] = 1-np.sum(self.aligned[1:8,15])%2
CornerParity(a) ==
    (a \ {<<0, 15>>})
    \cup (IF 1 - (ColSum(a, 1..7, 15) % 2) = 1 THEN {<<0, 15>>} ELSE {})

\* __setitem__: the exception raised ("" when none) and the grid afterwards
Pattern4_setitem(a, name, value0) ==
    LET value1 == IF name = "serial" THEN replaceDash(value0) ELSE value0
        rows == Pattern4_format(name)
        value == IF Len(value1) % 2 # 0 THEN <<"0">> \o value1 ELSE value1
    IN IF name = "manufacturer" /\ ~isdigit(value1)
       THEN [err |-> "NameError", aligned |-> a]
       ELSE IF ~isdigit(value1)
       THEN [err |-> "AssertionError", aligned |-> a]
       ELSE IF Len(value) # 2 * Len(rows)
       THEN [err |-> "AssertionError", aligned |-> a]
       ELSE [err |-> "",
             aligned |-> CornerParity(RowParity(WriteRows(a, rows, value, 0)))]

-----------------------------------------------------------------------------
(* The random module.  random.choice and random.sample draw from a stream   *)
(* of numbers, rnd, read cyclically; k counts the draws made so far.        *)

\* Length of the stream of random numbers a mask is generated from.
RandomPeriod == 2

\* Number of values a random number ranges over (0 .. RandomRange - 1).
RandomRange == 6

RandomStreams == [1..RandomPeriod -> 0..(RandomRange - 1)]

Draw(rnd, k) == rnd[(k % Len(rnd)) + 1]

\* random.choice(list), list not empty
Choice(rnd, k, list) == list[(Draw(rnd, k) % Len(list)) + 1]

RemoveAt(list, i) == SubSeq(list, 1, i - 1) \o SubSeq(list, i + 1, Len(list))

\* random.sample(list, n), n <= len(list): the set of the n elements drawn
RECURSIVE Sample(_, _, _, _)
Sample(rnd, k, list, n) ==
    IF n = 0 THEN {}
    ELSE LET i == (Draw(rnd, k) % Len(list)) + 1
         IN {list[i]} \cup Sample(rnd, k + 1, RemoveAt(list, i), n - 1)

\* [c for c in list if a[c] == 0]
Empties(list, a) == SelectSeq(list, LAMBDA c : c \notin a)

SeqRange(list) == {list[i] : i \in 1..Len(list)}

-----------------------------------------------------------------------------
(* _Pattern1, Pattern1s2, Pattern1s3 *)

Pattern1_n_i == 32
Pattern1_n_j == 32
Pattern1_n_i_prototype == 16
Pattern1_n_j_prototype == 16

Pattern1_repetitions == <<<<16, 16>>>>

Pattern1_markers == {<<0, 0>>, <<1, 0>>}

Pattern1_rot == <<0, 3>>

\* C = range(s,16,2), as a list
Pattern1_C(s) == [i \in 1..7 |-> s + 2 * (i - 1)]

\* R = range(1,16,2), as a list
Pattern1_R == [i \in 1..8 |-> 2 * i - 1]

Pattern1_codebits(s) ==
    {<<Pattern1_C(s)[i], Pattern1_R[j]>> : i \in 1..7, j \in 1..8}

Pattern1s2_empty ==
    {<<x, y>> : x \in 0..15, y \in {2, 4, 6, 8, 10, 12, 14}}
    \cup {<<x, y>> : x \in {3, 5, 7, 9, 11, 13, 15}, y \in 1..15}

Pattern1s3_empty ==
    {<<x, y>> : x \in 0..15, y \in {2, 4, 6, 8, 10, 12, 14}}
    \cup {<<x, y>> : x \in {0, 2, 4, 6, 8, 10, 12, 14}, y \in 1..15}

Pattern1_check(s, a) ==
    /\ Cardinality(a \cap Pattern1_codebits(s)) > 3
    /\ \A j \in 1..8 :
          Cardinality({i \in 1..7 : <<Pattern1_C(s)[i], Pattern1_R[j]>> \in a}) % 2 = 0

\* Mutant of Pattern1_amountNewDots: an even number of dots is added
Pattern1_amountNewDots_two(sum) == IF sum = 0 THEN 3 ELSE 2

\* amountNewDots = 3 if np.sum(m[self.C,r]) == 0 else 1
Pattern1_amountNewDots(sum) == IF sum = 0 THEN 3 ELSE 1

\* createMask(m): the loop over R from its j-th element on, k draws made
RECURSIVE Pattern1_maskRows(_, _, _, _, _)
Pattern1_maskRows(s, m, rnd, j, k) ==
    IF j > Len(Pattern1_R) THEN [err |-> "", anon |-> {}]
    ELSE LET r == Pattern1_R[j]
             column == [i \in 1..7 |-> <<Pattern1_C(s)[i], r>>]
             C_empty == Empties(column, m)
             amount == Pattern1_amountNewDots(Len(column) - Len(C_empty))
         IN IF amount > Len(C_empty)
            THEN [err |-> "ValueError", anon |-> {}]
            ELSE LET rest == Pattern1_maskRows(s, m, rnd, j + 1, k + amount)
                 IN [err |-> rest.err,
                     anon |-> Sample(rnd, k, C_empty, amount) \cup rest.anon]

Pattern1_createMask(s, m, rnd) == Pattern1_maskRows(s, m, rnd, 1, 0)

-----------------------------------------------------------------------------
(* Pattern2 *)

Pattern2_n_i == 18
Pattern2_n_j == 23

Pattern2_empty == {<<0, 0>>, <<2, 1>>}

Pattern2_markers == {<<1, 1>>, <<1, 0>>, <<0, 1>>}

\* manufacturers, as the list of its items in the order of the dict
Pattern2_manufacturers ==
    << <<(<<3, 2, 1, 0>>), "Okidata">>, <<(<<3, 0, 2, 1>>), "HP">>,
       <<(<<2, 3, 1, 0>>), "Ricoh">>,   <<(<<0, 1, 3, 2>>), "Ricoh">>,
       <<(<<0, 2, 1, 3>>), "Lexmark">>, <<(<<0, 1, 2, 3>>), "Kyocera">> >>

\* blocks[b][row][col], 1-based; the block of (x, y) is number 2*y + x + 1
Pattern2_blocks ==
    [b \in 1..8 |->
       LET x == (b - 1) % 2
           y == (b - 1) \div 2
       IN [row \in 1..5 |->
             [col \in 1..4 |->
                <<9 * x + 1 + 2 * (col - 1) + 1 - ((5 * y + 2 + (row - 1)) % 2),
                  5 * y + 2 + (row - 1)>>]]]

Pattern2_codebits ==
    {Pattern2_blocks[b][row][col] : b \in 1..8, row \in 1..5, col \in 1..4}

Pattern2_check(a) ==
    /\ \A b \in 1..8 : \A row \in 1..4 :
          Cardinality({col \in 1..4 : Pattern2_blocks[b][row][col] \in a}) = 1
    /\ \A b \in 1..8 : \A col \in 1..4 :
          Cardinality({row \in 1..5 : Pattern2_blocks[b][row][col] \in a}) % 2 = 1

\* trans[array2str(w)]: the digit of a one-hot word, -1 for a KeyError
Pattern2_digit(a, w) ==
    LET set == {col \in 1..4 : w[col] \in a}
    IN IF Cardinality(set) = 1 THEN 4 - (CHOOSE col \in set : TRUE) ELSE -1

\* decode(m)["manufacturer"]: [err, manufacturer], manufacturer "None" if unknown
Pattern2_decodeManufacturer(a) ==
    LET digits(b) == [row \in 1..4 |-> Pattern2_digit(a, Pattern2_blocks[b][row])]
        known == {i \in 1..Len(Pattern2_manufacturers) :
                     Pattern2_manufacturers[i][1] = digits(1)}
    IN IF \E b \in 1..8 : \E row \in 1..4 : digits(b)[row] = -1
       THEN [err |-> "KeyError", manufacturer |-> "None"]
       ELSE [err |-> "",
             manufacturer |-> IF known = {} THEN "None"
                              ELSE Pattern2_manufacturers[CHOOSE i \in known : TRUE][2]]

\* oneHotCodes = [w for words in self.blocks for w in words[0:4]]
Pattern2_oneHotCodes == [i \in 1..32 |-> Pattern2_blocks[((i - 1) \div 4) + 1][((i - 1) % 4) + 1]]

\* parity = [cell for words in self.blocks for cell in words[4]]
Pattern2_parity == {Pattern2_blocks[b][5][col] : b \in 1..8, col \in 1..4}

\* for b in oneHotCodes: anon[random.choice(empty)] = 1, from the i-th word on
RECURSIVE Pattern2_fillWords(_, _, _)
Pattern2_fillWords(m, rnd, i) ==
    IF i > Len(Pattern2_oneHotCodes) THEN [err |-> "", anon |-> {}]
    ELSE LET empty == Empties(Pattern2_oneHotCodes[i], m)
         IN IF Len(empty) = 0
            THEN [err |-> "IndexError", anon |-> {}]
            ELSE LET rest == Pattern2_fillWords(m, rnd, i + 1)
                 IN [err |-> rest.err,
                     anon |-> {Choice(rnd, i - 1, empty)} \cup rest.anon]

\* the dots of manufacturer code manu2 in block A
Pattern2_codeDots(manu2) ==
    {<<1 + 2 * (3 - manu2[r + 1]) + 1 - ((r + 2) % 2), r + 2>> : r \in 0..3}

\* anon[10:18,2:7] = anon[1:9,2:7]
Pattern2_copyAtoB(anon) ==
    {c \in anon : ~(c[1] \in 10..17 /\ c[2] \in 2..6)}
    \cup {<<c[1] + 9, c[2]>> : c \in {c \in anon : c[1] \in 1..8 /\ c[2] \in 2..6}}

Pattern2_createMaskStrategic(m, rnd) ==
    LET filled == Pattern2_fillWords(m, rnd, 1)
        decoded == Pattern2_decodeManufacturer(m)
        withParity == filled.anon \cup (Pattern2_parity \ m)
        cleared == {c \in withParity : ~(c[1] \in 1..17 /\ c[2] \in 2..6)}
        otherManufacturers ==
            SelectSeq(Pattern2_manufacturers, LAMBDA e : e[2] # decoded.manufacturer)
        manu2 == Choice(rnd, 32, otherManufacturers)[1]
    IN IF filled.err # "" THEN [err |-> filled.err, anon |-> {}]
       ELSE IF decoded.err # "" THEN [err |-> decoded.err, anon |-> {}]
       ELSE [err |-> "",
             anon |-> Pattern2_copyAtoB(cleared \cup Pattern2_codeDots(manu2))]

-----------------------------------------------------------------------------
(* Pattern3 *)

Pattern3_n_i == 24
Pattern3_n_j == 48
Pattern3_n_i_prototype == 24
Pattern3_n_j_prototype == 16

Pattern3_repetitions == <<<<8, 16>>, <<16, 32>>>>

Pattern3_markers == {<<0, 4>>, <<0, 1>>, <<2, 1>>}

\* the cells of the block of (bx, by), for y in range(3) for x in range(2)
Pattern3_block(bx, by) ==
    [i \in 1..6 |->
       LET x == (i - 1) % 2
           y == (i - 1) \div 2
       IN <<(bx * 4 + by + x) % 24, (3 * by + 1 + y) % 16>>]

\* blocks: for by in range(5) for bx in range(6) if bx+by>=2
Pattern3_blocks ==
    LET all == [k \in 1..30 |-> <<(k - 1) % 6, (k - 1) \div 6>>]
        kept == SelectSeq(all, LAMBDA e : e[1] + e[2] >= 2)
    IN [k \in 1..Len(kept) |-> Pattern3_block(kept[k][1], kept[k][2])]

Pattern3_codebits ==
    {Pattern3_blocks[k][i] : k \in 1..Len(Pattern3_blocks), i \in 1..6}

Pattern3_check(a) ==
    /\ Cardinality({c \in a : c[2] \in 0..15}) = 30
    /\ \A k \in 1..Len(Pattern3_blocks) :
          Cardinality({i \in 1..6 : Pattern3_blocks[k][i] \in a}) = 1

\* for b in self.blocks: anon[random.choice(empty)] = 1, from the k-th block on
RECURSIVE Pattern3_fillBlocks(_, _, _)
Pattern3_fillBlocks(m, rnd, k) ==
    IF k > Len(Pattern3_blocks) THEN [err |-> "", anon |-> {}]
    ELSE LET empty == Empties(Pattern3_blocks[k], m)
         IN IF Len(empty) = 0
            THEN [err |-> "IndexError", anon |-> {}]
            ELSE LET rest == Pattern3_fillBlocks(m, rnd, k + 1)
                 IN [err |-> rest.err,
                     anon |-> {Choice(rnd, k - 1, empty)} \cup rest.anon]

Pattern3_createMaskStrategic(m, rnd) == Pattern3_fillBlocks(m, rnd, 1)

-----------------------------------------------------------------------------
(* Pattern4.createMask *)

\* add = max(1, 4-int(np.sum(m[:,y])))
Pattern4_add(sum) == IF 4 - sum > 1 THEN 4 - sum ELSE 1

\* for y in range(1,6): ..., from line y on, k draws made
RECURSIVE Pattern4_maskLines(_, _, _, _)
Pattern4_maskLines(m, rnd, y, k) ==
    IF y > 5 THEN [err |-> "", anon |-> {}]
    ELSE LET column == [i \in 1..8 |-> <<i - 1, y>>]
             empty == Empties(column, m)
             add == Pattern4_add(Len(column) - Len(empty))
         IN IF add > Len(empty)
            THEN [err |-> "ValueError", anon |-> {}]
            ELSE LET rest == Pattern4_maskLines(m, rnd, y + 1, k + add)
                 IN [err |-> rest.err,
                     anon |-> Sample(rnd, k, empty, add) \cup rest.anon]

Pattern4_createMask(m, rnd) ==
    LET fixed == {<<x, 15>> : x \in 0..7}
                 \cup {<<7, 12>>, <<6, 12>>, <<5, 12>>, <<3, 12>>}
                 \cup {<<x, 8>> : x \in 3..7}
                 \cup {<<x, 9>> : x \in 4..7}
                 \cup {<<x, 10>> : x \in 3..7}
        lines == Pattern4_maskLines(m, rnd, 1, 0)
    IN IF lines.err # "" THEN lines
       ELSE [err |-> "", anon |-> fixed \cup lines.anon]

\* A caller-supplied grid m: minutes 55, hour 15, day 12, month 6, year 18,
\* serial 123456, manufacturer 3, all parities odd; plus a dot outside the
\* codebits, which the constructor drops.
SampleGrid ==
    {<<3, 0>>,
     <<0, 1>>, <<0, 2>>, <<0, 3>>, <<4, 3>>, <<5, 3>>, <<0, 4>>, <<2, 4>>,
     <<6, 4>>, <<2, 5>>, <<3, 5>>, <<4, 5>>, <<0, 6>>, <<0, 7>>, <<0, 8>>,
     <<3, 8>>, <<6, 8>>, <<0, 9>>, <<5, 9>>, <<6, 9>>, <<0, 10>>, <<4, 10>>,
     <<5, 10>>, <<0, 11>>, <<4, 11>>, <<5, 11>>, <<6, 11>>, <<7, 11>>,
     <<0, 12>>, <<6, 12>>, <<7, 12>>, <<0, 13>>, <<2, 14>>, <<3, 14>>,
     <<5, 14>>, <<6, 14>>, <<7, 14>>, <<1, 15>>, <<4, 15>>, <<6, 15>>}

-----------------------------------------------------------------------------
(* The pattern classes by pid, the number made of the digits of the class   *)
(* name: Pattern1s2 is 12, Pattern1s3 is 13.                                *)

Pids == {12, 13, 2, 3, 4}

Pattern1_s(pid) == pid - 10

markers(pid) ==
    CASE pid \in {12, 13} -> Pattern1_markers
      [] pid = 2 -> Pattern2_markers
      [] pid = 3 -> Pattern3_markers
      [] pid = 4 -> {}

codebits(pid) ==
    CASE pid \in {12, 13} -> Pattern1_codebits(Pattern1_s(pid))
      [] pid = 2 -> Pattern2_codebits
      [] pid = 3 -> Pattern3_codebits
      [] pid = 4 -> Pattern4_codebits

\* Mutant of Pattern_new: the markers are not set
Pattern_new_noMarkers(pid, m) == m \cap codebits(pid)

\* __init__(m): zeros, the markers set, the codebits copied from m
Pattern_new(pid, m) == markers(pid) \cup (m \cap codebits(pid))

check(pid, a) ==
    CASE pid \in {12, 13} -> Pattern1_check(Pattern1_s(pid), a)
      [] pid = 2 -> Pattern2_check(a)
      [] pid = 3 -> Pattern3_check(a)
      [] pid = 4 -> Pattern4_check(a)

\* The strategic mask of each class
StrategicMask(pid, m, rnd) ==
    CASE pid \in {12, 13} -> Pattern1_createMask(Pattern1_s(pid), m, rnd)
      [] pid = 2 -> Pattern2_createMaskStrategic(m, rnd)
      [] pid = 3 -> Pattern3_createMaskStrategic(m, rnd)
      [] pid = 4 -> Pattern4_createMask(m, rnd)

-----------------------------------------------------------------------------
(* _PatternAligningMixin: the search for the transformations that align a   *)
(* matrix, and its inverse.  A matrix is [shape |-> <<rows, columns>>,      *)
(* dots |-> the cells that hold 1].                                         *)

Pattern4_n_i == 16
Pattern4_n_j == 32

Pattern4_repetitions == <<<<8, 16>>>>

Pattern4_empty == {<<x, y>> : x \in 8..15, y \in 0..16}

n_i(pid) ==
    CASE pid \in {12, 13} -> Pattern1_n_i
      [] pid = 2 -> Pattern2_n_i
      [] pid = 3 -> Pattern3_n_i
      [] pid = 4 -> Pattern4_n_i

n_j(pid) ==
    CASE pid \in {12, 13} -> Pattern1_n_j
      [] pid = 2 -> Pattern2_n_j
      [] pid = 3 -> Pattern3_n_j
      [] pid = 4 -> Pattern4_n_j

n_i_prototype(pid) ==
    CASE pid \in {12, 13} -> Pattern1_n_i_prototype
      [] pid = 2 -> Pattern2_n_i
      [] pid = 3 -> Pattern3_n_i_prototype
      [] pid = 4 -> Pattern4_n_i_prototype

n_j_prototype(pid) ==
    CASE pid \in {12, 13} -> Pattern1_n_j_prototype
      [] pid = 2 -> Pattern2_n_j
      [] pid = 3 -> Pattern3_n_j_prototype
      [] pid = 4 -> Pattern4_n_j_prototype

repetitions(pid) ==
    CASE pid \in {12, 13} -> Pattern1_repetitions
      [] pid = 2 -> <<>>
      [] pid = 3 -> Pattern3_repetitions
      [] pid = 4 -> Pattern4_repetitions

empty(pid) ==
    CASE pid = 12 -> Pattern1s2_empty
      [] pid = 13 -> Pattern1s3_empty
      [] pid = 2 -> Pattern2_empty
      [] pid = 3 -> {}
      [] pid = 4 -> Pattern4_empty

allowFlip(pid) == pid \in {2, 4}

allowUpsideDown(pid) == pid \notin {12, 13}

\* Mutant of allowRotation: no class has its matrix shape compared
allowRotation_never(pid) == FALSE

allowRotation(pid) == pid \notin {12, 13}

\* hasattr(self,"rot")
hasRot(pid) == pid \in {12, 13}

\* np.fliplr(m)
fliplr(m) ==
    [shape |-> m.shape,
     dots |-> {<<c[1], m.shape[2] - 1 - c[2]>> : c \in m.dots}]

\* np.rot90(m, k)
rot90(m, k) ==
    CASE k % 4 = 0 -> m
      [] k % 4 = 1 -> [shape |-> <<m.shape[2], m.shape[1]>>,
                       dots |-> {<<m.shape[2] - 1 - c[2], c[1]>> : c \in m.dots}]
      [] k % 4 = 2 -> [shape |-> m.shape,
                       dots |-> {<<m.shape[1] - 1 - c[1], m.shape[2] - 1 - c[2]>> :
                                   c \in m.dots}]
      [] k % 4 = 3 -> [shape |-> <<m.shape[2], m.shape[1]>>,
                       dots |-> {<<c[2], m.shape[1] - 1 - c[1]>> : c \in m.dots}]

\* np.roll(m, (tx, ty), (0, 1))
roll(m, tx, ty) ==
    [shape |-> m.shape,
     dots |-> {<<(c[1] + tx) % m.shape[1], (c[2] + ty) % m.shape[2]>> : c \in m.dots}]

Min(a, b) == IF a < b THEN a ELSE b

\* m[0:rows, 0:cols]
crop(m, rows, cols) ==
    [shape |-> <<Min(m.shape[1], rows), Min(m.shape[2], cols)>>,
     dots |-> {c \in m.dots : c[1] < rows /\ c[2] < cols}]

\* np.sum(m, axis=0)[y] and np.sum(m, axis=1)[x]
SumAxis0(m, y) == Cardinality({c \in m.dots : c[2] = y})
SumAxis1(m, x) == Cardinality({c \in m.dots : c[1] = x})

Pattern1_checkUnaligned(m) ==
    /\ \E y \in 0..(m.shape[2] - 1) : SumAxis0(m, y) = 2
    /\ Cardinality({y \in 0..(m.shape[2] - 1) : SumAxis0(m, y) % 2 = 0}) >= 8

Pattern3_checkUnaligned(m) ==
    \E third \in {0..15, 16..31, 32..47} :
        Cardinality({c \in m.dots : c[2] \in third}) = 30

Pattern4_checkUnaligned(m) ==
    /\ Cardinality({y \in 0..(m.shape[2] - 1) : SumAxis0(m, y) % 2 = 1}) >= 14
    /\ Cardinality({x \in 0..(m.shape[1] - 1) : SumAxis1(m, x) % 2 = 1}) >= 7

checkUnaligned(pid, m) ==
    CASE pid \in {12, 13} -> Pattern1_checkUnaligned(m)
      [] pid = 2 -> TRUE
      [] pid = 3 -> Pattern3_checkUnaligned(m)
      [] pid = 4 -> Pattern4_checkUnaligned(m)

\* [rud for r in rot for rud in [r,r+2]]
RECURSIVE UpsideDown(_)
UpsideDown(rot) ==
    IF Len(rot) = 0 THEN <<>>
    ELSE <<rot[1], rot[1] + 2>> \o UpsideDown(Tail(rot))

\* Mutant of Rotations: a matrix of any shape is searched unrotated
Rotations_unchecked(pid, shape) ==
    IF hasRot(pid) THEN Pattern1_rot ELSE <<0, 2>>

\* the list rot of _getTransformations for a matrix of the given shape
Rotations(pid, shape) ==
    LET byShape ==
            IF allowRotation(pid)
            THEN (IF n_i(pid) = shape[1] /\ n_j(pid) = shape[2] THEN <<0>> ELSE <<>>)
                 \o (IF n_i(pid) = shape[2] /\ n_j(pid) = shape[1] THEN <<1>> ELSE <<>>)
            ELSE <<0>>
        rot == IF hasRot(pid) THEN Pattern1_rot ELSE byShape
    IN IF allowUpsideDown(pid) THEN UpsideDown(rot) ELSE rot

\* set([False, self.allowFlip])
Flipped(pid) == {FALSE, allowFlip(pid)}

\* the matrix m of a (rot_, flip) branch
Branch(unaligned_, rot_, flip) ==
    LET m == IF flip THEN fliplr(unaligned_) ELSE unaligned_
    IN IF rot_ # 0 THEN rot90(m, rot_) ELSE m

\* the condition of the list comprehension dd for the offset (x, y)
Fits(pid, m, x, y) ==
    /\ \A dot \in markers(pid) :
          <<(dot[1] + x) % m.shape[1], (dot[2] + y) % m.shape[2]>> \in m.dots
    /\ \A dot \in empty(pid) :
          <<(dot[1] + x) % m.shape[1], (dot[2] + y) % m.shape[2]>> \notin m.dots

\* _getTransformations(unaligned): the transformations of the list l
getTransformations(pid, unaligned_) ==
    UNION {
        LET m == Branch(unaligned_, b[1], b[2])
        IN IF ~checkUnaligned(pid, m) THEN {}
           ELSE {[x |-> -xy[1], y |-> -xy[2], rot |-> b[1], flip |-> b[2]] :
                    xy \in {xy \in (0..(m.shape[1] - 1)) \X (0..(m.shape[2] - 1)) :
                              Fits(pid, m, xy[1], xy[2])}}
        : b \in SeqRange(Rotations(pid, unaligned_.shape)) \X Flipped(pid)}

\* the matrix m handed to the constructor by applyTransformation
Transformed(pid, unaligned_, t) ==
    LET flipped == IF t.flip THEN fliplr(unaligned_) ELSE unaligned_
        rotated == IF t.rot # 0 THEN rot90(flipped, t.rot) ELSE flipped
    IN crop(roll(rotated, t.x, t.y), n_i_prototype(pid), n_j_prototype(pid))

\* m[x,y] for x,y in self.codebits raises IndexError outside the shape of m
Indexable(pid, m) ==
    \A c \in codebits(pid) : c[1] < m.shape[1] /\ c[2] < m.shape[2]

\* applyTransformation(unaligned, t): the instance, its .trans and .aligned
applyTransformation(pid, unaligned_, t) ==
    [trans |-> t, aligned |-> Pattern_new(pid, Transformed(pid, unaligned_, t).dots)]

\* Mutant of undoTransformation: the matrix is turned further, not back
undoTransformation_sameTurn(pid, a) ==
    LET shifts == SeqRange(repetitions(pid)) \cup {<<0, 0>>}
        m2 == [shape |-> <<n_i(pid), n_j(pid)>>,
               dots |-> {<<(r[1] + c[1]) % n_i(pid), (r[2] + c[2]) % n_j(pid)>> :
                           r \in shifts, c \in a.aligned}]
        unrotated == IF a.trans.rot # 0 THEN rot90(m2, a.trans.rot) ELSE m2
    IN IF a.trans.flip THEN fliplr(unrotated) ELSE unrotated

\* undoTransformation() of the instance a; the copies of the prototype that
\* the repetitions of the classes write lie apart, so no cell of m2 is
\* written twice
undoTransformation(pid, a) ==
    LET shifts == SeqRange(repetitions(pid)) \cup {<<0, 0>>}
        m2 == [shape |-> <<n_i(pid), n_j(pid)>>,
               dots |-> {<<(r[1] + c[1]) % n_i(pid), (r[2] + c[2]) % n_j(pid)>> :
                           r \in shifts, c \in a.aligned}]
        unrotated == IF a.trans.rot # 0 THEN rot90(m2, 4 - a.trans.rot) ELSE m2
    IN IF a.trans.flip THEN fliplr(unrotated) ELSE unrotated

-----------------------------------------------------------------------------
(* Instances of each class *)

\* The data dots that decode to the given digits of the 8 blocks
Pattern2_encode(codes) ==
    LET data == {Pattern2_blocks[b][row][4 - codes[b][row]] : b \in 1..8, row \in 1..4}
        even == {bc \in (1..8) \X (1..4) :
                   Cardinality({row \in 1..4 :
                       Pattern2_blocks[bc[1]][row][bc[2]] \in data}) % 2 = 0}
    IN data \cup {Pattern2_blocks[bc[1]][5][bc[2]] : bc \in even}

\* The data dots that decode to the given digits of the 27 blocks
Pattern3_encode(digits) ==
    {Pattern3_blocks[k][6 - digits[k]] : k \in 1..Len(Pattern3_blocks)}

\* The data dots of a family-1 grid, given the columns c that hold a dot on
\* each r
Pattern1_grid(cols) ==
    UNION {{<<c, Pattern1_R[j]>> : c \in cols[j]} : j \in 1..8}

Sample12 ==
    Pattern1_markers \cup
    Pattern1_grid(<<{}, {2, 4}, {2, 4, 6, 8}, {2, 4, 6, 8, 10, 12},
                    {4, 6, 8, 10, 12, 14}, {2, 6}, {8, 10, 12, 14}, {2, 14}>>)

Sample12Full ==
    Pattern1_markers \cup
    Pattern1_grid(<<{2, 4, 6, 8, 10, 12, 14}, {2, 4}, {2, 4, 6, 8}, {2, 4},
                    {4, 6}, {2, 6}, {8, 10}, {2, 14}>>)

Sample13 ==
    Pattern1_markers \cup
    Pattern1_grid(<<{3, 5}, {7, 9, 11, 13}, {3, 15}, {5, 7}, {9, 11, 13, 15},
                    {3, 5}, {11, 13}, {5, 9}>>)

Sample2 ==
    Pattern2_markers \cup
    Pattern2_encode(<< <<3, 0, 2, 1>>, <<3, 0, 2, 1>>, <<0, 1, 2, 3>>,
                       <<3, 3, 0, 0>>, <<1, 2, 1, 2>>, <<0, 0, 0, 0>>,
                       <<2, 1, 3, 0>>, <<1, 1, 1, 1>> >>)

Sample2Unknown ==
    Pattern2_markers \cup
    Pattern2_encode(<< <<1, 1, 1, 1>>, <<1, 1, 1, 1>>, <<3, 2, 1, 0>>,
                       <<0, 3, 0, 3>>, <<2, 2, 1, 1>>, <<3, 3, 3, 3>>,
                       <<0, 1, 0, 1>>, <<2, 0, 2, 0>> >>)

Sample3 == Pattern3_markers \cup Pattern3_encode([k \in 1..27 |-> (k * k) % 6])

Sample3Other == Pattern3_markers \cup Pattern3_encode([k \in 1..27 |-> (5 * k + 1) % 6])

\* Pattern(m) for the grids m above, Sample2 with one word emptied and
\* Sample3 with one block filled
Instances(pid) ==
    CASE pid = 12 -> {Pattern_new(12, Sample12), Pattern_new(12, Sample12Full)}
      [] pid = 13 -> {Pattern_new(13, Sample13)}
      [] pid = 2 -> {Pattern_new(2, Sample2), Pattern_new(2, Sample2Unknown),
                     Pattern_new(2, Sample2 \ SeqRange(Pattern2_blocks[3][2]))}
      [] pid = 3 -> {Pattern_new(3, Sample3), Pattern_new(3, Sample3Other),
                     Pattern_new(3, Sample3 \cup SeqRange(Pattern3_blocks[4]))}
      [] pid = 4 -> {Pattern_new(4, SampleGrid),
                     Pattern_new(4, SampleGrid \cup {<<x, 2>> : x \in 0..7})}

-----------------------------------------------------------------------------
(* Pattern4 instances under get / set / check *)

\* Cells flipped in SampleGrid to obtain the other caller-supplied grids
Flips ==
    {{},
     {<<0, 15>>},
     {<<0, 3>>},
     {<<5, 15>>},
     {<<4, 6>>, <<4, 15>>},
     {<<2, 9>>, <<0, 9>>, <<2, 15>>},
     {<<1, 10>>, <<0, 10>>, <<1, 15>>, <<0, 15>>}}

Flip(m, cells) == (m \ cells) \cup (cells \ m)

\* Pattern4() and Pattern4(m)
Pattern4_instances ==
    {Pattern_new(4, {})} \cup {Pattern_new(4, Flip(SampleGrid, f)) : f \in Flips}

Str(w) ==
    CASE w = "Xerox" -> <<"X","e","r","o","x">>
      [] w = "Epson" -> <<"E","p","s","o","n">>
      [] w = "Dell"  -> <<"D","e","l","l">>
      [] w = "HP"    -> <<"H","P">>

\* The (name, value) arguments tried, value already passed through str()
SetInputs ==
    {<<"minutes", pystr(55)>>, <<"minutes", pystr(5)>>, <<"minutes", pystr(100)>>,
     <<"hour", pystr(15)>>, <<"hour", pystr(99)>>,
     <<"day", pystr(12)>>, <<"day", pystr(32)>>,
     <<"month", pystr(6)>>, <<"month", pystr(16)>>,
     <<"year", pystr(18)>>,
     <<"serial", pystr(123456)>>,
     <<"serial", <<"-">> \o pystr(654321) \o <<"-">>>>,
     <<"serial", pystr(1234)>>,
     <<"unknown1", pystr(0)>>,
     <<"manufacturer", pystr(3)>>, <<"manufacturer", pystr(20)>>,
     <<"manufacturer", pystr(5)>>,
     <<"manufacturer", Str("Xerox")>>, <<"manufacturer", Str("Dell")>>,
     <<"manufacturer", Str("HP")>>,
     <<"unknown3", pystr(99)>>,
     <<"unknown4", pystr(7)>>,
     <<"unknown5", <<>>>>,
     <<"printer", pystr(12345678)>>,
     <<"raw", pystr(1020) \o pystr(123456) \o pystr(7708) \o pystr(18061215)
              \o pystr(2099) \o pystr(55)>>}

NoSet == [name |-> "", value |-> <<>>, err |-> ""]

NoMatrix == [shape |-> <<0, 0>>, dots |-> {}]

NoInstance == [trans |-> <<>>, aligned |-> {}]

InitSet ==
    /\ before = aligned
    /\ last = NoSet
    /\ written = {}
    /\ nsets = 0

InitSearch ==
    /\ unaligned = NoMatrix
    /\ found = {}
    /\ tdms = {}
    /\ origin = NoInstance
    /\ nundo = 0

Init ==
    /\ pattern = 4
    /\ aligned \in Pattern4_instances
    /\ op = [kind |-> "init", name |-> ""]
    /\ ret = <<>>
    /\ err = ""
    /\ mask = {}
    /\ InitSet
    /\ InitSearch

\* A client makes a run of assignments and may read a field or validate
\* after any of them; a read leaves the instance as it is, so it is explored
\* once for each state of the instance.
Mutable == op.kind \in {"init", "set"}

\* tdm[name] = value
Set(name, value) ==
    /\ Mutable
    /\ nsets < MaxSets
    /\ \E r \in {Pattern4_setitem(aligned, name, value)} :
          /\ aligned' = r.aligned
          /\ err' = r.err
          /\ last' = [name |-> name, value |-> value, err |-> r.err]
          /\ written' = IF r.err = ""
                        THEN written \cup {Pattern4_format(name)[k] :
                                             k \in 1..Len(Pattern4_format(name))}
                        ELSE written
    /\ before' = aligned
    /\ op' = [kind |-> "set", name |-> name]
    /\ ret' = <<>>
    /\ nsets' = nsets + 1
    /\ UNCHANGED <<pattern, mask, searchvars>>

\* tdm[name]
Get(name) ==
    /\ Mutable
    /\ ret' = Pattern4_getitem(aligned, name)
    /\ op' = [kind |-> "get", name |-> name]
    /\ err' = ""
    /\ UNCHANGED <<pattern, aligned, setvars, mask, searchvars>>

\* tdm.check()
Check ==
    /\ Mutable
    /\ ret' = IF check(pattern, aligned) THEN <<"True">> ELSE <<"False">>
    /\ op' = [kind |-> "check", name |-> ""]
    /\ err' = ""
    /\ UNCHANGED <<pattern, aligned, setvars, mask, searchvars>>

Next ==
    \/ \E i \in SetInputs : Set(i[1], i[2])
    \/ \E name \in Pattern4_names : Get(name)
    \/ Check

Spec == Init /\ [][Next]_vars

-----------------------------------------------------------------------------
(* Mask generation on an instance of any class *)

InitMask ==
    /\ pattern \in Pids
    /\ aligned \in Instances(pattern)
    /\ op = [kind |-> "init", name |-> ""]
    /\ ret = <<>>
    /\ err = ""
    /\ mask = {}
    /\ InitSet
    /\ InitSearch

\* pattern.createMask(aligned) / pattern.createMaskStrategic(aligned), the
\* random module delivering the stream rnd; the instance is left as it is,
\* so masks are generated for it as it was constructed
CreateMask(rnd) ==
    /\ op.kind = "init"
    /\ \E r \in {StrategicMask(pattern, aligned, rnd)} :
          /\ mask' = r.anon
          /\ err' = r.err
    /\ op' = [kind |-> "mask", name |-> ""]
    /\ UNCHANGED <<pattern, aligned, ret, setvars, searchvars>>

NextMask == \E rnd \in RandomStreams : CreateMask(rnd)

SpecMask == InitMask /\ [][NextMask]_vars

\* np.array((self.aligned+mask)>0): the cell-wise OR
Masked == aligned \cup mask

-----------------------------------------------------------------------------
(* The search on a matrix, and again on the matrix rebuilt from a result *)

\* Longest run of rebuilds (undoTransformation, then the search again).
MaxUndo == 1

NoTrans == [x |-> 0, y |-> 0, rot |-> 0, flip |-> FALSE]

\* The matrix of a page region that shows the instance bits: the full grid
\* with its repetitions, moved by (dx, dy), the dots of drop missing and
\* those of extra added, seen turned back by k quarter turns and mirrored
Region(pid, bits, k, flip, dx, dy, drop, extra) ==
    LET full == undoTransformation(pid, [trans |-> NoTrans, aligned |-> bits])
        moved == roll(full, dx, dy)
        seen == [shape |-> moved.shape, dots |-> (moved.dots \ drop) \cup extra]
        turned == rot90(seen, 4 - k)
    IN IF flip THEN fliplr(turned) ELSE turned

\* A matrix of prototype shape
Prototype(pid, dots) ==
    [shape |-> <<n_i_prototype(pid), n_j_prototype(pid)>>, dots |-> dots]

\* A family-1 grid of prototype shape, markers set and empty cells clear,
\* with a third dot on line 0 and four dots on every data line
Sample12Line0 ==
    Pattern1_markers \cup {<<5, 0>>} \cup
    Pattern1_grid([j \in 1..8 |-> {2, 4, 6, 8}])

B4 == Pattern_new(4, SampleGrid)

\* The topmost dot of each of the lines 1 to 9 of B4
B4Faded ==
    {c \in B4 : c[2] \in 1..9 /\ \A d \in B4 : d[2] = c[2] => d[1] >= c[1]}

\* The (pid, matrix) pairs the search is run on
SearchInputs ==
    {<<12, Region(12, Sample12, 0, FALSE, 0, 0, {}, {})>>,
     <<12, Region(12, Sample12, 0, FALSE, 5, 7, {}, {})>>,
     <<12, Region(12, Sample12, 3, FALSE, 20, 9, {}, {})>>,
     <<13, Region(13, Sample13, 0, FALSE, 16, 16, {}, {})>>,
     <<13, Region(13, Sample13, 3, FALSE, 3, 4, {}, {<<9, 9>>})>>,
     <<2, Region(2, Sample2, 0, TRUE, 4, 9, {}, {})>>,
     <<2, Region(2, Sample2, 1, FALSE, 0, 0, {}, {})>>,
     <<2, Region(2, Sample2, 2, TRUE, 3, 3, {}, {})>>,
     <<2, Region(2, Sample2, 3, FALSE, 1, 2, {}, {<<0, 0>>})>>,
     <<2, Region(2, {}, 0, FALSE, 0, 0, {}, {<<5, 5>>, <<6, 6>>})>>,
     <<3, Region(3, Sample3, 0, FALSE, 0, 0, {}, {})>>,
     <<3, Region(3, Sample3, 2, FALSE, 5, 5, {}, {})>>,
     <<3, Region(3, Sample3, 1, FALSE, 0, 0, {}, {})>>,
     <<3, Region(3, Sample3, 3, FALSE, 7, 20, {}, {})>>,
     <<3, Region(3, Sample3, 0, FALSE, 0, 0, {Pattern3_blocks[1][5]}, {})>>,
     <<3, Region(3, {}, 0, FALSE, 0, 0, {}, {<<1, 1>>})>>,
     <<4, Region(4, B4, 0, FALSE, 0, 0, {}, {})>>,
     <<4, Region(4, B4, 0, TRUE, 3, 5, {}, {})>>,
     <<4, Region(4, B4, 2, FALSE, 0, 0, {}, {})>>,
     <<4, Region(4, B4, 1, TRUE, 0, 0, {}, {})>>,
     <<4, Region(4, B4, 3, FALSE, 9, 9, {}, {})>>,
     <<4, Region(4, B4, 0, FALSE, 0, 0, B4Faded, {})>>,
     <<12, Prototype(12, Sample12)>>,
     <<12, Prototype(12, Sample12Line0)>>,
     <<13, Prototype(13, Sample13)>>,
     <<2, Prototype(2, Sample2)>>,
     <<3, Prototype(3, Sample3)>>,
     <<4, Prototype(4, B4)>>,
     <<2, crop(Prototype(2, Sample2), 18, 18)>>,
     <<12, crop(Prototype(12, Sample12), 16, 15)>>,
     <<12, [shape |-> <<32, 34>>,
            dots |-> Region(12, Sample12, 0, FALSE, 0, 0, {}, {}).dots]>>}

InitSearchRun ==
    /\ \E i \in SearchInputs : pattern = i[1] /\ unaligned = i[2]
    /\ aligned = {}
    /\ op = [kind |-> "init", name |-> ""]
    /\ ret = <<>>
    /\ err = ""
    /\ mask = {}
    /\ InitSet
    /\ found = {}
    /\ tdms = {}
    /\ origin = NoInstance
    /\ nundo = 0

\* The place of the branch of transformation t in the list l
BranchRank(pid, shape, t) ==
    2 * (CHOOSE i \in 1..Len(Rotations(pid, shape)) : Rotations(pid, shape)[i] = t.rot)
    + (IF t.flip THEN 1 ELSE 0)

\* getAlignedTDMs(meta, unaligned): _getTransformations, then
\* applyTransformation for each transformation, up to the first one whose
\* matrix the constructor cannot index
Search ==
    /\ op.kind \in {"init", "undo"}
    /\ \E l \in {getTransformations(pattern, unaligned)} :
       \E failing \in {{t \in l :
                          ~Indexable(pattern, Transformed(pattern, unaligned, t))}} :
          LET yielded == {t \in l : \A f \in failing :
                             BranchRank(pattern, unaligned.shape, t)
                               < BranchRank(pattern, unaligned.shape, f)}
          IN /\ found' = l
             /\ tdms' = {applyTransformation(pattern, unaligned, t) : t \in yielded}
             /\ err' = IF failing # {} THEN "IndexError" ELSE ""
    /\ op' = [kind |-> "search", name |-> ""]
    /\ UNCHANGED <<pattern, aligned, ret, setvars, mask, unaligned, origin, nundo>>

\* a.undoTransformation() for an instance a the search returned
Undo(a) ==
    /\ op.kind = "search"
    /\ nundo < MaxUndo
    /\ a \in tdms
    /\ origin' = a
    /\ aligned' = a.aligned
    /\ unaligned' = undoTransformation(pattern, a)
    /\ found' = {}
    /\ tdms' = {}
    /\ nundo' = nundo + 1
    /\ op' = [kind |-> "undo", name |-> ""]
    /\ err' = ""
    /\ UNCHANGED <<pattern, ret, setvars, mask>>

NextSearch ==
    \/ Search
    \/ \E a \in tdms : Undo(a)

SpecSearch == InitSearchRun /\ [][NextSearch]_vars

-----------------------------------------------------------------------------
(* Properties of Pattern4 get / set / check *)

\* The value as __setitem__ takes it: dashes of a serial dropped, padded
\* with a leading zero to even length
Padded(name, value) ==
    LET v == IF name = "serial" THEN replaceDash(value) ELSE value
    IN IF Len(v) % 2 # 0 THEN <<"0">> \o v ELSE v

SetSucceeded == last.name # "" /\ last.err = ""

Lines(name) == {Pattern4_format(name)[k] : k \in 1..Len(Pattern4_format(name))}

Odd(n) == n % 2 = 1

\* Dots of grid a on line j over i = 0..7, and on row i over j = 1..15
DotsOnLine(a, j) == Cardinality({c \in a : c[2] = j /\ c[1] \in 0..7})
DotsOnRow(a, i) == Cardinality({c \in a : c[1] = i /\ c[2] \in 1..15})

ReservedEmpty(a) ==
    a \cap ({<<1, 9>>, <<2, 9>>, <<3, 9>>}
            \cup {<<1, 10>>, <<2, 10>>, <<1, 11>>, <<2, 11>>}) = {}

\* C1 (as claimed): a get right after a successful set of the same field
\* returns the value that was set, zero-padded to two digits per line, the
\* serial wrapped in dashes.
C1_RoundTrip ==
    (op.kind = "get" /\ SetSucceeded /\ op.name = last.name)
        => ret = IF op.name = "serial"
                 THEN <<"-">> \o Padded(last.name, last.value) \o <<"-">>
                 ELSE Padded(last.name, last.value)

\* C2 (as claimed): a successful set on a grid that passes check() leaves a
\* grid that passes check().
C2_CheckPreserved ==
    (op.kind = "set" /\ SetSucceeded /\ Pattern4_check(before))
        => Pattern4_check(aligned)

\* The two-digit number a set writes to line 9 is below 16, and the ones it
\* writes to lines 10 and 11 are below 32
WritesKeepReserved(name, value) ==
    \A k \in 1..Len(Pattern4_format(name)) :
        LET n == pyint(ValueGroup(Padded(name, value), k - 1))
            row == Pattern4_format(name)[k]
        IN /\ row = 9 => n < 16
           /\ row \in {10, 11} => n < 32

\* C2 (amended): a successful set on a grid that passes check() leaves a grid
\* that passes check(), provided the numbers it writes to lines 9, 10 and 11
\* leave the reserved cells empty.
C2_CheckPreservedInRange ==
    (op.kind = "set" /\ SetSucceeded /\ Pattern4_check(before)
       /\ WritesKeepReserved(last.name, last.value))
        => Pattern4_check(aligned)

C2_Witness ==
    /\ op.kind = "set" /\ SetSucceeded /\ Pattern4_check(before)
    /\ last.name = "month" /\ WritesKeepReserved(last.name, last.value)
    /\ aligned # before

\* C7 (as claimed): check() is true exactly when each of the 15 lines
\* j = 1..15 has an odd number of dots, each row i = 1..7 has an odd number
\* of dots over j = 1..15, and the reserved cells are empty.
C7_CheckIsFormula15 ==
    op.kind = "check"
        => ((ret = <<"True">>)
              <=> /\ \A j \in 1..15 : Odd(DotsOnLine(aligned, j))
                  /\ \A i \in 1..7 : Odd(DotsOnRow(aligned, i))
                  /\ ReservedEmpty(aligned))

\* C7 (amended): check() is true exactly when each of the 14 lines
\* j = 1..14 has an odd number of dots, each row i = 1..7 has an odd number
\* of dots over j = 1..15, and the reserved cells are empty; the parity of
\* line 15 is not examined.
C7_CheckIsFormula14 ==
    op.kind = "check"
        => ((ret = <<"True">>)
              <=> /\ \A j \in 1..14 : Odd(DotsOnLine(aligned, j))
                  /\ \A i \in 1..7 : Odd(DotsOnRow(aligned, i))
                  /\ ReservedEmpty(aligned))

C7_Witness ==
    /\ op.kind = "check" /\ ret = <<"True">>
    /\ ~Odd(DotsOnLine(aligned, 15))

KnownNames == {Pattern4_manufacturers[k] : k \in DOMAIN Pattern4_manufacturers}

\* C8 (as claimed): a set fails when the padded value does not have exactly
\* two decimal digits per line of the field; a set of manufacturer with a
\* non-numeric name fails when the name is not in the table, and succeeds
\* and writes the code of the name when it is.
C8_SetErrors ==
    op.kind = "set" =>
        IF last.name = "manufacturer" /\ ~isdigit(last.value)
        THEN IF last.value \in KnownNames
             THEN /\ last.err = ""
                  /\ Pattern4_getitem(aligned, "manufacturer") = last.value
             ELSE last.err # ""
        ELSE (~isdigit(Padded(last.name, last.value))
              \/ Len(Padded(last.name, last.value))
                   # 2 * Len(Pattern4_format(last.name)))
                => last.err # ""

\* C10: once a set has succeeded, every line written by a set has an odd
\* number of dots over i = 0..7, every row i = 1..7 has an odd number of dots
\* over j = 1..15, and line 15 has an odd number of dots over i = 0..7.
C10_ParityAfterWrites ==
    written # {} =>
        /\ \A j \in written : Odd(DotsOnLine(aligned, j))
        /\ \A i \in 1..7 : Odd(DotsOnRow(aligned, i))
        /\ Odd(DotsOnLine(aligned, 15))

C10_Witness ==
    /\ op.kind = "set" /\ SetSucceeded /\ nsets >= 2
    /\ written # Lines(last.name)
    /\ ~Pattern4_check(before)

\* the call made last is a set that succeeded
SetReturned == op.kind = "set" /\ last.err = ""

\* the cells in which the grids a and b differ
Changed(a, b) == (a \ b) \cup (b \ a)

\* the last successful set left every cell off its lines and line 15 alone
CellsFramed ==
    \A c \in Changed(before, aligned) : c[2] \in Lines(last.name) \cup {15}

\* the lines a get of field g reads: its own, and for serial the line of
\* manufacturer as well
ReadLines(g) ==
    Lines(g) \cup (IF g = "serial" THEN Lines("manufacturer") ELSE {})

\* C11 (as claimed): a successful set changes only cells on the lines of its
\* field and on line 15, and leaves the get of every field whose lines are
\* disjoint from the written lines as it was.
C11_SetFrame ==
    SetReturned =>
        /\ CellsFramed
        /\ \A g \in Pattern4_names :
              Lines(g) \cap Lines(last.name) = {} =>
                  Pattern4_getitem(aligned, g) = Pattern4_getitem(before, g)

\* C11 (amended): a successful set changes only cells on the lines of its
\* field and on line 15, and leaves the get of every field as it was whose
\* lines, together with line 12 of manufacturer when the field is serial,
\* are disjoint from the written lines.
C11_SetFrameOfReadLines ==
    SetReturned =>
        /\ CellsFramed
        /\ \A g \in Pattern4_names :
              ReadLines(g) \cap Lines(last.name) = {} =>
                  Pattern4_getitem(aligned, g) = Pattern4_getitem(before, g)

C11_Witness ==
    /\ SetReturned /\ last.name = "hour"
    /\ Changed(before, aligned) # {}
    /\ 3 \in written
    /\ Pattern4_getitem(aligned, "serial") = Pattern4_getitem(before, "serial")
    /\ Pattern4_getitem(aligned, "hour") # Pattern4_getitem(before, "hour")

-----------------------------------------------------------------------------
(* Properties of the strategic masks *)

MaskMade == op.kind = "mask" /\ err = "" /\ check(pattern, aligned)

\* C3 (as claimed): the OR of a grid that passes check() with its strategic
\* mask passes check() of the same class.
C3_MaskedPassesCheck == MaskMade => check(pattern, Masked)

\* C3 (amended): for every class, the OR of a grid that passes check() with
\* its strategic mask keeps the dots of the grid, adds dots to it, and never
\* passes check() of the same class.
C3_MaskedFailsCheck ==
    MaskMade => /\ ~check(pattern, Masked)
                /\ mask \ aligned # {}

C3_Witness == MaskMade /\ pattern = 2 /\ mask # {}

-----------------------------------------------------------------------------
(* Properties of the search *)

Searched == op.kind = "search"

\* the search was run on the matrix rebuilt from the instance origin
SearchedAgain == Searched /\ nundo > 0

Recovered == \E a \in tdms : a.aligned = origin.aligned

\* C4 (as claimed): the search on undoTransformation(a), a an instance the
\* search returned, yields an instance with the bits of a.
C4_UndoSearchRecovers == SearchedAgain => Recovered

\* C4 (amended): the search on undoTransformation(a), a an instance the
\* search returned that passes check(), yields an instance with the bits
\* of a.
C4_UndoSearchRecoversValid ==
    (SearchedAgain /\ check(pattern, origin.aligned)) => Recovered

C4_Witness ==
    /\ SearchedAgain /\ check(pattern, origin.aligned) /\ Recovered
    /\ pattern = 3 /\ origin.trans.rot = 3

\* C5: every instance the search returns has a dot on every cell of markers
\* and none on any cell of empty.
C5_MarkersSetEmptyClear ==
    Searched => \A a \in tdms : /\ markers(pattern) \subseteq a.aligned
                                /\ empty(pattern) \cap a.aligned = {}

C5_Witness ==
    /\ Searched /\ pattern = 12
    /\ \E a \in tdms : a.trans.rot = 3 /\ a.aligned \cap codebits(12) # {}

\* the matrix is of prototype shape, its markers set and its empty cells clear
Canonical ==
    /\ unaligned.shape = <<n_i_prototype(pattern), n_j_prototype(pattern)>>
    /\ markers(pattern) \subseteq unaligned.dots
    /\ empty(pattern) \cap unaligned.dots = {}

\* the matrix is the grid of an instance, as its constructor builds it
Constructed ==
    /\ unaligned.shape = <<n_i_prototype(pattern), n_j_prototype(pattern)>>
    /\ markers(pattern) \subseteq unaligned.dots
    /\ unaligned.dots \subseteq markers(pattern) \cup codebits(pattern)

\* C6 (as claimed): the search on a matrix in canonical aligned form returns
\* the identity transformation among its results.
C6_IdentityFound == (Searched /\ Canonical) => NoTrans \in found

\* C6 (amended): the search on the grid of an instance (prototype shape,
\* markers set, dots on codebits only) returns the identity among its results
\* for the classes 1s2, 1s3 and 2; for the classes 3 and 4, whose prototype
\* is smaller than the matrix the search accepts, it returns nothing.
C6_IdentityFoundWhereShapeFits ==
    (Searched /\ Constructed) =>
        IF pattern \in {12, 13, 2} THEN NoTrans \in found ELSE found = {}

C6_Witness ==
    Searched /\ Constructed /\ pattern = 12 /\ NoTrans \in found /\ nundo = 0

\* the shape is neither (n_i, n_j) nor, for the classes 2, 3 and 4 that allow
\* rotation, (n_j, n_i)
WrongDims ==
    /\ unaligned.shape # <<n_i(pattern), n_j(pattern)>>
    /\ ~(pattern \in {2, 3, 4} /\ unaligned.shape = <<n_j(pattern), n_i(pattern)>>)

\* C9 (as claimed): the search on a matrix of wrong dimensions reports an
\* error.
C9_WrongDimsSignalled == (Searched /\ WrongDims) => err # ""

\* C9 (amended): on a matrix of wrong dimensions the search of the classes
\* 2, 3 and 4 returns an empty result and no error; the classes 1s2 and 1s3
\* do not look at the dimensions, and an error (IndexError) arises only when
\* a transformation is found on a matrix with fewer than 16 rows or columns.
C9_WrongDimsEmptyResult ==
    (Searched /\ WrongDims) =>
        IF pattern \in {2, 3, 4}
        THEN err = "" /\ found = {} /\ tdms = {}
        ELSE err # "" => /\ err = "IndexError"
                         /\ found # {}
                         /\ (unaligned.shape[1] < 16 \/ unaligned.shape[2] < 16)

C9_Witness ==
    Searched /\ WrongDims /\ pattern = 2 /\ unaligned.dots # {} /\ found = {}

====
